---- MODULE Spec2Model ----
(***************************************************************************)
(* Model of mrtoct-pytorch: the checkpoint life cycle and training loop of *)
(* train.py and the NIFTI dataset of mrtoct/dataset.py.                    *)
(*                                                                         *)
(* Strings are sequences of one-character strings, so that slicing,        *)
(* splitting, suffix tests and lexicographic order are computed as Python  *)
(* computes them.  A file system is a sequence of entries in directory     *)
(* order; os.listdir returns the names in that order.                      *)
(***************************************************************************)
EXTENDS Integers, Sequences, FiniteSets, TLC

VARIABLES
  files,       \* the file system: sequence of [path, data], in directory order
  dirs,        \* the directories that exist
  pc,          \* position of main in train.py
  run,         \* number of the current invocation of main
  step,        \* main's local `step`
  model,       \* the generator's weights (state_dict)
  outputs,     \* result of the last forward pass
  loss,        \* result of the last criterion(outputs, targets)
  grad,        \* state of the parameters' gradients
  batch,       \* batches of the current pass over the loader already taken
  nbatches,    \* len(loader)
  log_steps,   \* args.log_steps
  save_steps,  \* args.save_steps
  ops,         \* operations performed so far in the current iteration
  rc,          \* locals of the last restore_checkpoint call of this run
  saves,       \* every save_model call so far, over all runs
  built,       \* a NIFTI dataset has been constructed
  filenames,   \* NIFTI.filenames
  length,      \* last result of NIFTI.__len__
  volume       \* last file loaded by NIFTI.__getitem__

vars == <<files, dirs, pc, run, step, model, outputs, loss, grad, batch,
          nbatches, log_steps, save_steps, ops, rc, saves,
          built, filenames, length, volume>>

trainVars == <<pc, run, step, model, outputs, loss, grad, batch,
               nbatches, log_steps, save_steps, ops, rc, saves>>

niftiVars == <<built, filenames, length, volume>>

-----------------------------------------------------------------------------
(* Bounds *)

MaxStep == 3        \* the step counter is explored up to this value
MaxRuns == 2        \* invocations of main on the same directory
MaxBatches == 2     \* batches per pass over the loader
MaxEvery == 2       \* largest log_steps / save_steps explored
MaxFiles == 3       \* entries of a NIFTI root directory

-----------------------------------------------------------------------------
(* Python strings *)

\* The characters used, in code point order.
Alphabet ==
  <<"+", "-", ".", "/", "0", "1", "2", "3", "4", "5", "6", "7", "8", "9",
    "a", "b", "c", "d", "e", "g", "i", "j", "k", "l", "m", "n", "o", "p",
    "s", "t", "x", "z">>

Ord(c) == CHOOSE i \in 1..Len(Alphabet) : Alphabet[i] = c

Digits == <<"0", "1", "2", "3", "4", "5", "6", "7", "8", "9">>

IsDigit(c) == \E i \in 1..10 : Digits[i] = c

DigitVal(c) == (CHOOSE i \in 1..10 : Digits[i] = c) - 1

Min(a, b) == IF a < b THEN a ELSE b

\* str.__lt__: lexicographic by code point, a proper prefix sorts first.
StrLess(a, b) ==
  \E k \in 1..(Min(Len(a), Len(b)) + 1) :
    /\ \A i \in 1..(k - 1) : a[i] = b[i]
    /\ \/ k > Len(a) /\ k <= Len(b)
       \/ k <= Len(a) /\ k <= Len(b) /\ Ord(a[k]) < Ord(b[k])

\* str.endswith
endswith(s, suf) ==
  /\ Len(suf) <= Len(s)
  /\ SubSeq(s, Len(s) - Len(suf) + 1, Len(s)) = suf

\* str.startswith
startswith(s, pre) == Len(pre) <= Len(s) /\ SubSeq(s, 1, Len(pre)) = pre

\* s[:-n] for n > 0
DropLast(s, n) == IF Len(s) > n THEN SubSeq(s, 1, Len(s) - n) ELSE <<>>

\* s.split(sep) for a one-character sep: the pieces between the separators.
RECURSIVE split(_, _)
split(s, sep) ==
  IF \A i \in 1..Len(s) : s[i] # sep
  THEN <<s>>
  ELSE LET k == CHOOSE i \in 1..Len(s) :
                  s[i] = sep /\ \A j \in 1..(i - 1) : s[j] # sep
       IN  <<SubSeq(s, 1, k - 1)>> \o split(SubSeq(s, k + 1, Len(s)), sep)

\* Value of a non-empty string of decimal digits.
RECURSIVE DecVal(_)
DecVal(s) ==
  IF Len(s) = 0 THEN 0
  ELSE 10 * DecVal(SubSeq(s, 1, Len(s) - 1)) + DigitVal(s[Len(s)])

\* int(s): an optional sign followed by decimal digits; anything else raises
\* ValueError.
PyInt(s) ==
  LET signed == Len(s) > 0 /\ s[1] \in {"+", "-"}
      body == IF signed THEN Tail(s) ELSE s
  IN  IF Len(body) > 0 /\ \A i \in 1..Len(body) : IsDigit(body[i])
      THEN [ok |-> TRUE,
            val |-> IF signed /\ s[1] = "-" THEN 0 - DecVal(body)
                    ELSE DecVal(body)]
      ELSE [ok |-> FALSE, val |-> 0]

\* str(n) for n >= 0
RECURSIVE Dec(_)
Dec(n) ==
  IF n < 10 THEN <<Digits[n + 1]>>
  ELSE Dec(n \div 10) \o <<Digits[(n % 10) + 1]>>

RECURSIVE Zeros(_)
Zeros(n) == IF n <= 0 THEN <<>> ELSE <<"0">> \o Zeros(n - 1)

\* f'{n:05d}' for n >= 0: zero-padded to width 5, longer numbers kept whole.
Pad5(n) == Zeros(5 - Len(Dec(n))) \o Dec(n)

\* list.sort() on strings: insertion into the sorted prefix, stable.
RECURSIVE Insert(_, _)
Insert(x, s) ==
  IF s = <<>> THEN <<x>>
  ELSE IF StrLess(x, Head(s)) THEN <<x>> \o s
  ELSE <<Head(s)>> \o Insert(x, Tail(s))

RECURSIVE sort(_)
sort(s) == IF s = <<>> THEN <<>> ELSE Insert(Head(s), sort(Tail(s)))

\* seq[i] with Python's indexing: negative indices count from the end.
InRange(s, i) == 0 - Len(s) <= i /\ i < Len(s)

PyIndex(s, i) == IF i >= 0 THEN s[i + 1] ELSE s[Len(s) + i + 1]

-----------------------------------------------------------------------------
(* os.path and the file system *)

\* os.path.join(a, b) on POSIX
join(a, b) ==
  IF startswith(b, <<"/">>) THEN b
  ELSE IF a = <<>> \/ endswith(a, <<"/">>) THEN a \o b
  ELSE a \o <<"/">> \o b

HasSlash(s) == \E i \in 1..Len(s) : s[i] = "/"

\* The entry `e` lies directly in directory `d`.
InDir(e, d) ==
  /\ startswith(e.path, d \o <<"/">>)
  /\ ~HasSlash(SubSeq(e.path, Len(d) + 2, Len(e.path)))

BaseName(p, d) == SubSeq(p, Len(d) + 2, Len(p))

RECURSIVE NamesIn(_, _)
NamesIn(fs, d) ==
  IF fs = <<>> THEN <<>>
  ELSE (IF InDir(Head(fs), d) THEN <<BaseName(Head(fs).path, d)>> ELSE <<>>)
       \o NamesIn(Tail(fs), d)

\* os.listdir(d): the names of the entries of d, in directory order.
listdir(fs, d) == NamesIn(fs, d)

Paths(fs) == {fs[i].path : i \in 1..Len(fs)}

DataAt(fs, p) == fs[CHOOSE i \in 1..Len(fs) : fs[i].path = p].data

\* Writing a file creates it at the end of the directory or replaces its
\* data in place.
WriteFile(fs, p, d) ==
  IF p \in Paths(fs)
  THEN [i \in 1..Len(fs) |-> IF fs[i].path = p THEN [path |-> p, data |-> d]
                             ELSE fs[i]]
  ELSE Append(fs, [path |-> p, data |-> d])

-----------------------------------------------------------------------------
(* train.py: names and checkpoint files *)

CheckpointPath == <<"c", "k">>                 \* args.checkpoint_path
ModelPrefix == <<"m", "o", "d", "e", "l">>     \* 'model'
ImagesPrefix == <<"i", "m", "a", "g", "e", "s">>   \* 'images'
PtExt == <<".", "p", "t">>                     \* '.pt'
JpgExt == <<".", "j", "p", "g">>               \* '.jpg'

\* f'{prefix}-{step:05d}.{ext}' joined to the checkpoint path.
fmt_fname(prefix, ext, s, chckpt_path) ==
  join(chckpt_path, prefix \o <<"-">> \o Pad5(s) \o <<".">> \o ext)

\* Weights are identified by where they came from (the run whose Generator()
\* created them, 0 for a file that no run of main wrote) and by the number of
\* optimizer updates applied to them.
Generator(r) == [src |-> r, upd |-> 0]

NoValue == [src |-> 0 - 1, upd |-> 0 - 1]

\* `step` before main assigns it.
NoStep == 0 - 1

\* torch.save(model.state_dict(), fmt_fname('model', '.pt', step, path))
save_model(fs, m, s, checkpoint_path) ==
  WriteFile(fs, fmt_fname(ModelPrefix, PtExt, s, checkpoint_path),
            [kind |-> "state_dict", w |-> m])

\* save_image(..., fmt_fname('images', '.jpg', step, path))
save_results(fs, out, s, checkpoint_path) ==
  WriteFile(fs, fmt_fname(ImagesPrefix, JpgExt, s, checkpoint_path),
            [kind |-> "image", w |-> out])

IsPt(f) == endswith(f, PtExt)

\* chkpts.sort()
SortChkpts(l) == sort(l)

\* The checkpoint restore_checkpoint takes from the sorted list.
PickChkpt(chkpts) == chkpts[1]

\* int(chkpts[0][:-3].split('-')[1])
ParseStep(name) ==
  LET pieces == split(DropLast(name, 3), "-")
  IN  IF Len(pieces) < 2 THEN [ok |-> FALSE, val |-> 0, err |-> "IndexError"]
      ELSE LET n == PyInt(pieces[2])
           IN  IF n.ok THEN [ok |-> TRUE, val |-> n.val, err |-> "none"]
               ELSE [ok |-> FALSE, val |-> 0, err |-> "ValueError"]

NoRestore ==
  [status |-> "none", chkpts |-> <<>>, picked |-> <<>>, loaded |-> <<>>,
   step |-> NoStep]

\* restore_checkpoint(model, checkpoint_path): the locals at its end, and the
\* model's weights after it.  status is "ok" or the exception raised.
restore_checkpoint(fs, ds, m, checkpoint_path) ==
  IF checkpoint_path \notin ds
  THEN [NoRestore EXCEPT !.status = "FileNotFoundError"] @@ [model |-> m]
  ELSE
    LET chkpts == SortChkpts(SelectSeq(listdir(fs, checkpoint_path), IsPt))
    IN  IF Len(chkpts) > 0
        THEN LET f == PickChkpt(chkpts)
                 n == ParseStep(f)
             IN  IF n.ok
                 THEN [status |-> "ok", chkpts |-> chkpts, picked |-> f,
                       loaded |-> f, step |-> n.val,
                       model |-> DataAt(fs, join(checkpoint_path, f)).w]
                 ELSE [status |-> n.err, chkpts |-> chkpts, picked |-> f,
                       loaded |-> <<>>, step |-> NoStep, model |-> m]
        ELSE [status |-> "ok", chkpts |-> chkpts, picked |-> <<>>,
              loaded |-> <<>>, step |-> 0, model |-> m]

-----------------------------------------------------------------------------
(* The checkpoint directory main is started on *)

NotesTxt == <<"n", "o", "t", "e", "s", ".", "t", "x", "t">>
Plain1Pt == ModelPrefix \o <<"-", "0", "0", "0", "0", "1", ".", "p", "t">>
Plain2Pt == ModelPrefix \o <<"-", "0", "0", "0", "0", "2", ".", "p", "t">>
Saved2Pt == ModelPrefix \o <<"-", "0", "0", "0", "0", "2", ".", ".", "p", "t">>

Foreign(n) == [kind |-> "state_dict", w |-> [src |-> 0, upd |-> n]]

Entry(name, d) == [path |-> join(CheckpointPath, name), data |-> d]

\* Directory contents main may find: nothing, a file that is no checkpoint,
\* checkpoints named model-0000N.pt that no run of this main wrote, and a
\* checkpoint an earlier run's save_model left behind.
InitialListings ==
  { <<>>,
    <<Entry(NotesTxt, [kind |-> "text", w |-> NoValue])>>,
    <<Entry(Plain1Pt, Foreign(2))>>,
    <<Entry(Plain2Pt, Foreign(3)), Entry(Plain1Pt, Foreign(2))>>,
    <<Entry(NotesTxt, [kind |-> "text", w |-> NoValue]),
      Entry(Plain2Pt, Foreign(3))>>,
    <<Entry(Saved2Pt, Foreign(3))>> }

-----------------------------------------------------------------------------
(* train.py: main *)

Running ==
  {"main", "makedirs", "restore", "for", "forward", "zero_grad", "loss",
   "backward", "optimizer_step", "log", "save", "increment"}

InLoop == pc \in Running \ {"main", "makedirs", "restore"}

Op(name, file) == [op |-> name, file |-> file]

\* The process's memory before main runs (and after the process is gone).
FreshProcess ==
  /\ step' = NoStep
  /\ model' = NoValue
  /\ outputs' = NoValue
  /\ loss' = NoValue
  /\ grad' = "none"
  /\ batch' = 0
  /\ ops' = <<>>
  /\ rc' = NoRestore

InitTrain ==
  /\ \/ dirs = {} /\ files = <<>>
     \/ dirs = {CheckpointPath} /\ files \in InitialListings
  /\ pc = "main"
  /\ run = 1
  /\ step = NoStep
  /\ model = NoValue
  /\ outputs = NoValue
  /\ loss = NoValue
  /\ grad = "none"
  /\ batch = 0
  /\ nbatches \in 0..MaxBatches
  /\ log_steps \in 1..MaxEvery
  /\ save_steps \in 1..MaxEvery
  /\ ops = <<>>
  /\ rc = NoRestore
  /\ saves = <<>>

NoVolume == [index |-> 0, file |-> <<>>]

Init ==
  /\ InitTrain
  /\ built = FALSE
  /\ filenames = <<>>
  /\ length = 0 - 1
  /\ volume = NoVolume

\* model = Generator(); model.train()
NewModel ==
  /\ pc = "main"
  /\ model' = Generator(run)
  /\ pc' = "makedirs"
  /\ UNCHANGED <<files, dirs, run, step, outputs, loss, grad, batch, nbatches,
                 log_steps, save_steps, ops, rc, saves, niftiVars>>

\* Variant: the directory is not created.
MakeDirsSkipped ==
  /\ pc = "makedirs"
  /\ pc' = "restore"
  /\ UNCHANGED <<files, dirs, run, step, model, outputs, loss, grad, batch,
                 nbatches, log_steps, save_steps, ops, rc, saves, niftiVars>>

\* if not os.path.exists(args.checkpoint_path): os.makedirs(...)
MakeDirs ==
  /\ pc = "makedirs"
  /\ dirs' = IF CheckpointPath \notin dirs THEN dirs \cup {CheckpointPath}
             ELSE dirs
  /\ pc' = "restore"
  /\ UNCHANGED <<files, run, step, model, outputs, loss, grad, batch, nbatches,
                 log_steps, save_steps, ops, rc, saves, niftiVars>>

\* step = restore_checkpoint(model, args.checkpoint_path); an exception ends
\* the process.  The loader, criterion and optimizer are then built.
RestoreCheckpoint ==
  /\ pc = "restore"
  /\ LET r == restore_checkpoint(files, dirs, model, CheckpointPath)
     IN  /\ rc' = [status |-> r.status, chkpts |-> r.chkpts,
                   picked |-> r.picked, loaded |-> r.loaded, step |-> r.step]
         /\ model' = r.model
         /\ step' = r.step
         /\ pc' = IF r.status = "ok" THEN "for" ELSE "crashed"
  /\ UNCHANGED <<files, dirs, run, outputs, loss, grad, batch, nbatches,
                 log_steps, save_steps, ops, saves, niftiVars>>

\* for inputs, targets in loader: the next batch of the current pass.
NextBatch ==
  /\ pc = "for"
  /\ batch < nbatches
  /\ batch' = batch + 1
  /\ ops' = <<>>
  /\ pc' = "forward"
  /\ UNCHANGED <<files, dirs, run, step, model, outputs, loss, grad, nbatches,
                 log_steps, save_steps, rc, saves, niftiVars>>

\* Variant: the loop ends when the loader is exhausted.
NewPassExits ==
  /\ pc = "for"
  /\ batch >= nbatches
  /\ pc' = "done"
  /\ UNCHANGED <<files, dirs, run, step, model, outputs, loss, grad, batch,
                 nbatches, log_steps, save_steps, ops, rc, saves, niftiVars>>

\* Variant: a new pass starts counting again.
NewPassResetsStep ==
  /\ pc = "for"
  /\ batch >= nbatches
  /\ batch' = 0
  /\ step' = 0
  /\ pc' = "for"
  /\ UNCHANGED <<files, dirs, run, model, outputs, loss, grad, nbatches,
                 log_steps, save_steps, ops, rc, saves, niftiVars>>

\* The loader is exhausted: `while True` starts a new pass over it.
NewPass ==
  /\ pc = "for"
  /\ batch >= nbatches
  /\ batch' = 0
  /\ pc' = "for"
  /\ UNCHANGED <<files, dirs, run, step, model, outputs, loss, grad, nbatches,
                 log_steps, save_steps, ops, rc, saves, niftiVars>>

\* outputs = model(inputs)
Forward ==
  /\ pc = "forward"
  /\ outputs' = model
  /\ ops' = Append(ops, Op("forward", <<>>))
  /\ pc' = "zero_grad"
  /\ UNCHANGED <<files, dirs, run, step, model, loss, grad, batch, nbatches,
                 log_steps, save_steps, rc, saves, niftiVars>>

\* optimizer.zero_grad()
ZeroGrad ==
  /\ pc = "zero_grad"
  /\ grad' = "zero"
  /\ ops' = Append(ops, Op("zero_grad", <<>>))
  /\ pc' = "loss"
  /\ UNCHANGED <<files, dirs, run, step, model, outputs, loss, batch, nbatches,
                 log_steps, save_steps, rc, saves, niftiVars>>

\* loss = criterion(outputs, targets)
Loss ==
  /\ pc = "loss"
  /\ loss' = outputs
  /\ ops' = Append(ops, Op("loss", <<>>))
  /\ pc' = "backward"
  /\ UNCHANGED <<files, dirs, run, step, model, outputs, grad, batch, nbatches,
                 log_steps, save_steps, rc, saves, niftiVars>>

\* loss.backward()
Backward ==
  /\ pc = "backward"
  /\ grad' = "computed"
  /\ ops' = Append(ops, Op("backward", <<>>))
  /\ pc' = "optimizer_step"
  /\ UNCHANGED <<files, dirs, run, step, model, outputs, loss, batch, nbatches,
                 log_steps, save_steps, rc, saves, niftiVars>>

\* Variant: the weights are not yet updated when the iteration saves.
OptimizerStepAfterSave ==
  /\ pc = "optimizer_step"
  /\ ops' = Append(ops, Op("optimizer_step", <<>>))
  /\ pc' = "log"
  /\ UNCHANGED <<files, dirs, run, step, model, outputs, loss, grad, batch,
                 nbatches, log_steps, save_steps, rc, saves, niftiVars>>

\* optimizer.step()
OptimizerStep ==
  /\ pc = "optimizer_step"
  /\ model' = [model EXCEPT !.upd = @ + 1]
  /\ ops' = Append(ops, Op("optimizer_step", <<>>))
  /\ pc' = "log"
  /\ UNCHANGED <<files, dirs, run, step, outputs, loss, grad, batch, nbatches,
                 log_steps, save_steps, rc, saves, niftiVars>>

\* if step % args.log_steps == 0: log_msg(...); save_results(...)
LogDue == step % log_steps = 0

LogResults ==
  /\ pc = "log"
  /\ IF LogDue
     THEN /\ files' = save_results(files, outputs, step, CheckpointPath)
          /\ ops' = ops \o
               <<Op("log_msg", <<>>),
                 Op("save_results",
                    fmt_fname(ImagesPrefix, JpgExt, step, CheckpointPath))>>
     ELSE UNCHANGED <<files, ops>>
  /\ pc' = "save"
  /\ UNCHANGED <<dirs, run, step, model, outputs, loss, grad, batch, nbatches,
                 log_steps, save_steps, rc, saves, niftiVars>>

\* Variant: the period is counted from 1.
SaveDueOffByOne == (step + 1) % save_steps = 0

\* if step % args.save_steps == 0: save_model(model, step, path)
SaveDue == step % save_steps = 0

SaveModel ==
  /\ pc = "save"
  /\ IF SaveDue
     THEN /\ files' = save_model(files, model, step, CheckpointPath)
          /\ ops' = Append(ops,
               Op("save_model",
                  fmt_fname(ModelPrefix, PtExt, step, CheckpointPath)))
          /\ saves' = Append(saves, [run |-> run, step |-> step, w |-> model])
     ELSE UNCHANGED <<files, ops, saves>>
  /\ pc' = "increment"
  /\ UNCHANGED <<dirs, run, step, model, outputs, loss, grad, batch, nbatches,
                 log_steps, save_steps, rc, niftiVars>>

\* step += 1
Increment ==
  /\ pc = "increment"
  /\ step < MaxStep
  /\ step' = step + 1
  /\ pc' = "for"
  /\ UNCHANGED <<files, dirs, run, model, outputs, loss, grad, batch, nbatches,
                 log_steps, save_steps, ops, rc, saves, niftiVars>>

\* The process is stopped from outside; its memory is gone, the files stay.
Kill ==
  /\ pc \in Running
  /\ pc' = "stopped"
  /\ FreshProcess
  /\ UNCHANGED <<files, dirs, run, nbatches, log_steps, save_steps, saves,
                 niftiVars>>

\* main is started again on the same directory with the same arguments.
Restart ==
  /\ pc \in {"stopped", "crashed"}
  /\ run < MaxRuns
  /\ run' = run + 1
  /\ pc' = "main"
  /\ FreshProcess
  /\ UNCHANGED <<files, dirs, nbatches, log_steps, save_steps, saves,
                 niftiVars>>

\* One run of main, left alone.
NextRun ==
  \/ NewModel
  \/ MakeDirs
  \/ RestoreCheckpoint
  \/ NextBatch
  \/ NewPass
  \/ Forward
  \/ ZeroGrad
  \/ Loss
  \/ Backward
  \/ OptimizerStep
  \/ LogResults
  \/ SaveModel
  \/ Increment

Next ==
  \/ NewModel
  \/ MakeDirs
  \/ RestoreCheckpoint
  \/ NextBatch
  \/ NewPass
  \/ Forward
  \/ ZeroGrad
  \/ Loss
  \/ Backward
  \/ OptimizerStep
  \/ LogResults
  \/ SaveModel
  \/ Increment
  \/ Kill
  \/ Restart

Spec == Init /\ [][Next]_vars

\* The statements of the training loop.
LoopStep ==
  \/ NextBatch
  \/ NewPass
  \/ Forward
  \/ ZeroGrad
  \/ Loss
  \/ Backward
  \/ OptimizerStep
  \/ LogResults
  \/ SaveModel
  \/ Increment

\* A process that is not stopped keeps executing its loop.
FairSpec == Init /\ [][NextRun]_vars /\ WF_vars(LoopStep)

-----------------------------------------------------------------------------
(* mrtoct/dataset.py: NIFTI *)

Root == <<"d">>                                \* root

NiiExt == <<".", "n", "i", "i">>               \* '.nii'
NiiGzExt == <<".", "n", "i", "i", ".", "g", "z">>   \* '.nii.gz'

\* Variant: compressed volumes are not recognised.
is_nifti_nii_only(filename) == endswith(filename, NiiExt)

\* any(filename.endswith(ext) for ext in ['.nii', '.nii.gz'])
is_nifti(filename) ==
  \E ext \in {NiiExt, NiiGzExt} : endswith(filename, ext)

RECURSIVE JoinAll(_, _)
JoinAll(root, names) ==
  IF names = <<>> THEN <<>>
  ELSE <<join(root, Head(names))>> \o JoinAll(root, Tail(names))

\* self.filenames.sort()
SortFilenames(l) == sort(l)

\* NIFTI.__init__: the is_nifti entries of root, joined to root, sorted.
NIFTI_filenames(fs, root) ==
  SortFilenames(JoinAll(root, SelectSeq(listdir(fs, root), is_nifti)))

\* Entry names a root directory may hold; PoolNifti are those that are NIFTI
\* files by their extension.
BNii == <<"b">> \o NiiExt
ANiiGz == <<"a">> \o NiiGzExt
ANii == <<"a">> \o NiiExt
CGz == <<"c", ".", "g", "z">>
PlainNii == <<"n", "i", "i">>
ANiiBak == <<"a">> \o NiiExt \o <<".", "b", "a", "k">>

Pool == {BNii, ANiiGz, ANii, CGz, PlainNii, ANiiBak}

PoolNifti == {BNii, ANiiGz, ANii}

\* Directory listings: distinct names of the pool, in any order.
Listings ==
  {l \in UNION {[1..n -> Pool] : n \in 0..MaxFiles} :
     \A i, j \in 1..Len(l) : i # j => l[i] # l[j]}

InitNIFTI ==
  /\ \E l \in Listings :
       files = [i \in 1..Len(l) |->
                  [path |-> join(Root, l[i]),
                   data |-> [kind |-> "volume", w |-> NoValue]]]
  /\ dirs = {Root}
  /\ pc = "idle"
  /\ run = 0
  /\ step = NoStep
  /\ model = NoValue
  /\ outputs = NoValue
  /\ loss = NoValue
  /\ grad = "none"
  /\ batch = 0
  /\ nbatches = 0
  /\ log_steps = 1
  /\ save_steps = 1
  /\ ops = <<>>
  /\ rc = NoRestore
  /\ saves = <<>>
  /\ built = FALSE
  /\ filenames = <<>>
  /\ length = 0 - 1
  /\ volume = NoVolume

\* NIFTI(root)
NIFTI_init ==
  /\ ~built
  /\ built' = TRUE
  /\ filenames' = NIFTI_filenames(files, Root)
  /\ UNCHANGED <<files, dirs, trainVars, length, volume>>

\* len(dataset)
NIFTI_len ==
  /\ built
  /\ length' = Len(filenames)
  /\ UNCHANGED <<files, dirs, trainVars, built, filenames, volume>>

\* dataset[index]: nb.load(self.filenames[index]); an index out of range
\* raises IndexError and loads nothing.
NIFTI_getitem ==
  /\ built
  /\ \E index \in (0 - MaxFiles)..MaxFiles :
       /\ InRange(filenames, index)
       /\ volume' = [index |-> index, file |-> PyIndex(filenames, index)]
  /\ UNCHANGED <<files, dirs, trainVars, built, filenames, length>>

NextNIFTI ==
  \/ NIFTI_init
  \/ NIFTI_len
  \/ NIFTI_getitem

SpecNIFTI == InitNIFTI /\ [][NextNIFTI]_vars

-----------------------------------------------------------------------------
(* Properties *)

OpNames(l) == [i \in 1..Len(l) |-> l[i].op]

HasOp(name) == \E i \in 1..Len(ops) : ops[i].op = name

InIteration ==
  pc \in {"forward", "zero_grad", "loss", "backward", "optimizer_step",
          "log", "save", "increment"}

RECURSIVE LeadingDigits(_)
LeadingDigits(s) ==
  IF s = <<>> \/ ~IsDigit(Head(s)) THEN <<>>
  ELSE <<Head(s)>> \o LeadingDigits(Tail(s))

\* The number a file name carries: the digits that follow its first '-'.
StepInName(p) == DecVal(LeadingDigits(split(p, "-")[2]))

\* The name save_model gives the checkpoint of step s.
SavedName(s) ==
  BaseName(fmt_fname(ModelPrefix, PtExt, s, CheckpointPath), CheckpointPath)

SavedNames == {SavedName(s) : s \in 0..MaxStep}

StepOfSaved(name) == CHOOSE s \in 0..MaxStep : SavedName(s) = name

\* C1: at the end of every iteration, save_model has run iff step is a
\* multiple of save_steps, the loss was logged and the sample images saved iff
\* step is a multiple of log_steps, and each file written in the iteration
\* exists and carries the iteration's step in its name.
C1_PeriodicSaves ==
  pc = "increment" =>
    /\ HasOp("save_model") <=> (step % save_steps = 0)
    /\ HasOp("log_msg") <=> (step % log_steps = 0)
    /\ HasOp("save_results") <=> (step % log_steps = 0)
    /\ \A i \in 1..Len(ops) :
         ops[i].op \in {"save_model", "save_results"} =>
           /\ ops[i].file \in Paths(files)
           /\ StepInName(ops[i].file) = step

C1_Witness ==
  /\ pc = "increment"
  /\ step = 1
  /\ HasOp("save_model")
  /\ ~HasOp("save_results")

\* C2 (as claimed): when the checkpoints restore_checkpoint finds are exactly
\* the one file save_model wrote for step s, it completes without error,
\* loads that file into the model and returns s.
C2_RoundTrip ==
  \A s \in 0..MaxStep :
    (rc.status # "none" /\ rc.chkpts = <<SavedName(s)>>) =>
      /\ rc.status = "ok"
      /\ rc.step = s
      /\ rc.loaded = SavedName(s)
      /\ pc = "for" /\ batch = 0 /\ ops = <<>> =>
           model = DataAt(files, join(CheckpointPath, SavedName(s))).w

\* No entry of the checkpoint directory ends in '.pt'.
NoPtFile ==
  \A p \in Paths(files) :
    startswith(p, CheckpointPath \o <<"/">>) => ~endswith(p, PtExt)

\* C3: main reaches restore_checkpoint only with the directory in place, and
\* when the directory holds no '.pt' file restore_checkpoint returns step 0,
\* loads nothing and leaves the weights as they were.
C3_NoCheckpoint ==
  /\ [](pc = "restore" => CheckpointPath \in dirs)
  /\ [][(pc = "restore" /\ pc' \notin {"restore", "stopped"} /\ NoPtFile) =>
          /\ pc' = "for"
          /\ step' = 0
          /\ model' = model
          /\ rc'.status = "ok"
          /\ rc'.loaded = <<>>]_vars

C3_Witness ==
  /\ pc = "for"
  /\ rc.status = "ok"
  /\ rc.chkpts = <<>>
  /\ Len(files) > 0
  /\ step = 0
  /\ model = Generator(run)

ListedNames == {BaseName(p, Root) : p \in Paths(files)}

Expected == {join(Root, n) : n \in ListedNames \cap PoolNifti}

\* C4: a constructed NIFTI dataset's filenames are exactly the listed
\* '.nii' / '.nii.gz' entries joined to the root, in strictly ascending
\* order; len() is their number; dataset[i] loads the i-th of them.
C4_NiftiFilenames ==
  built =>
    /\ {filenames[i] : i \in 1..Len(filenames)} = Expected
    /\ Len(filenames) = Cardinality(Expected)
    /\ \A i, j \in 1..Len(filenames) :
         i < j => StrLess(filenames[i], filenames[j])
    /\ length >= 0 => length = Cardinality(Expected)
    /\ (volume.file # <<>> /\ volume.index >= 0) =>
         /\ volume.file = filenames[volume.index + 1]
         /\ volume.file \in Expected

C4_Witness ==
  /\ built
  /\ Len(files) = 3
  /\ files[1].path = join(Root, BNii)
  /\ files[2].path = join(Root, ANiiBak)
  /\ files[3].path = join(Root, ANiiGz)
  /\ length = 2
  /\ volume = [index |-> 1, file |-> join(Root, BNii)]

\* The operations of an iteration at the current step, in the order of the
\* code.
IterationOrder ==
  <<"forward", "zero_grad", "loss", "backward", "optimizer_step">>
  \o (IF step % log_steps = 0 THEN <<"log_msg", "save_results">> ELSE <<>>)
  \o (IF step % save_steps = 0 THEN <<"save_model">> ELSE <<>>)

\* C5: within an iteration the operations performed so far are a prefix of
\* forward, zero_grad, loss, backward, optimizer step, logging/sample saving
\* (when due), checkpoint saving (when due); all of them are done when the
\* step is about to be incremented; and a file written in the iteration is
\* labelled with the still unincremented step, a checkpoint holding the
\* weights as updated in this same iteration.
C5_IterationOrder ==
  InIteration =>
    /\ Len(ops) <= Len(IterationOrder)
    /\ OpNames(ops) = SubSeq(IterationOrder, 1, Len(ops))
    /\ pc = "increment" => OpNames(ops) = IterationOrder
    /\ \A i \in 1..Len(ops) :
         /\ ops[i].op = "save_model" =>
              /\ StepInName(ops[i].file) = step
              /\ DataAt(files, ops[i].file).w = model
              /\ model.upd = outputs.upd + 1
         /\ ops[i].op = "save_results" =>
              /\ StepInName(ops[i].file) = step
              /\ DataAt(files, ops[i].file).w = outputs
              /\ model.upd = outputs.upd + 1

C5_Witness ==
  /\ pc = "increment"
  /\ step = 2
  /\ OpNames(ops) =
       <<"forward", "zero_grad", "loss", "backward", "optimizer_step",
         "log_msg", "save_results", "save_model">>

\* C6: a run that is not stopped never finishes: inside the loop a step is
\* always possible, and with a loader of at least one batch every value of
\* the step counter is followed by the next one.
C6_NeverTerminates ==
  /\ [](InLoop /\ step < MaxStep => ENABLED LoopStep)
  /\ \A n \in 0..(MaxStep - 1) :
       (InLoop /\ nbatches >= 1 /\ step = n) ~> (InLoop /\ step = n + 1)

C6_Witness ==
  /\ pc = "increment"
  /\ nbatches = 1
  /\ batch = 1
  /\ rc.step = 0
  /\ step = 2

\* C7 (as claimed): when restore_checkpoint finds several checkpoints that
\* save_model wrote at distinct steps, it loads the one with the greatest
\* step and returns that step.
C7_RestoresLatest ==
  (/\ rc.status # "none"
   /\ Len(rc.chkpts) >= 2
   /\ \A i \in 1..Len(rc.chkpts) : rc.chkpts[i] \in SavedNames) =>
    LET top == CHOOSE s \in 0..MaxStep :
                 /\ \E i \in 1..Len(rc.chkpts) : rc.chkpts[i] = SavedName(s)
                 /\ \A i \in 1..Len(rc.chkpts) :
                      StepOfSaved(rc.chkpts[i]) <= s
    IN  /\ rc.status = "ok"
        /\ rc.step = top
        /\ rc.loaded = SavedName(top)

\* C8 (as claimed): over all runs on one directory no step's checkpoint is
\* written twice, and a run that restored step s writes checkpoints only for
\* steps greater than s.
C8_WrittenOnce ==
  /\ \A i, j \in 1..Len(saves) : i # j => saves[i].step # saves[j].step
  /\ (rc.status = "ok" /\ rc.loaded # <<>>) =>
       \A i \in 1..Len(saves) : saves[i].run = run => saves[i].step > rc.step

\* C9: within a run, step is set by restore_checkpoint's return value,
\* grows by exactly 1 at the end of each iteration, and is left alone by
\* every other part of the loop, the start of a new pass included.
C9_StepCounter ==
  [][(run' = run /\ pc' # "stopped") =>
       /\ (pc = "restore" /\ pc' = "for") =>
            /\ rc'.status = "ok"
            /\ step' = rc'.step
            /\ step' >= 0
       /\ (pc = "increment" /\ pc' # "increment") => step' = step + 1
       /\ (InLoop /\ pc # "increment") => step' = step]_vars

C9_Witness ==
  /\ pc = "forward"
  /\ nbatches = 1
  /\ rc.step = 1
  /\ step = 3

====
